---- MODULE Spec2Model ----
(***************************************************************************)
(* A model of the face-overlay compositor (FaceSwapEngine) of the          *)
(* mada-deepfake-detector frontend and of the callers that drive it.       *)
(*                                                                         *)
(* Numbers.  The source computes in IEEE doubles; the model computes in    *)
(* fixed point.  Normalised coordinates (0..1) are integers in units of    *)
(* 1/10000; pixel coordinates are integers in units of 1/1000 pixel        *)
(* ("mpx"); blendAmount is a percentage (95 is 0.95); featherAmount is in  *)
(* whole pixels; colour channels and alpha are bytes 0..255.               *)
(***************************************************************************)
EXTENDS Integers, Sequences, FiniteSets, TLC

(***************************************************************************)
(* Bounds of the model.                                                    *)
(***************************************************************************)
\* the number of loadTargetFace calls of one run
MaxLoads == 2

\* the number of startStream calls that wait for the camera at one time
MaxStarts == 1

\* the number of selectFace calls of one run of the hook
MaxSelects == 1

\* the number of steps of the grid of bounding boxes a face rectangle is
\* computed for
MaxBoxSteps == 3

\* the number of steps of the grid of face rectangles a draw rectangle is
\* computed for
MaxRectSteps == 3

\* the largest factor by which the generated face is scaled up for the
\* feathering step taken on its own
MaxOvalScale == 3

\* the largest number of detection_result messages the socket delivers
MaxMessages == 52

\* the largest number of detect calls made on one useDetection hook
MaxDetects == 3

None == "none"

(***************************************************************************)
(* Arithmetic helpers.                                                     *)
(***************************************************************************)
Min(a, b) == IF a < b THEN a ELSE b
Max(a, b) == IF a > b THEN a ELSE b
Abs(a) == IF a < 0 THEN 0 - a ELSE a

\* a / b rounded to the nearest integer, for a >= 0 and b > 0
RoundDiv(a, b) == (2 * a + b) \div (2 * b)

RECURSIVE SqrtSearch(_, _, _)
SqrtSearch(n, lo, hi) ==
    IF lo >= hi THEN lo
    ELSE LET mid == (lo + hi + 1) \div 2
         IN  IF mid * mid <= n THEN SqrtSearch(n, mid, hi)
             ELSE SqrtSearch(n, lo, mid - 1)

\* Math.sqrt, rounded down, of 0 <= n < 2^31
Sqrt(n) == SqrtSearch(n, 0, 46340)

\* f itself, as an explicit table: one evaluation of every element
Table(f) == f @@ <<>>

RECURSIVE SumSeq(_)
SumSeq(s) == IF s = <<>> THEN 0 ELSE Head(s) + SumSeq(Tail(s))

RECURSIVE MaxSeq(_)
MaxSeq(s) == IF s = <<>> THEN 0 ELSE Max(Head(s), MaxSeq(Tail(s)))

(***************************************************************************)
(* Surfaces.  A surface (a canvas bitmap, a video frame) is a sequence of  *)
(* pixels in row-major order; a pixel is <<r, g, b, a>>.  All surfaces of  *)
(* a run have the size of the output canvas.                               *)
(***************************************************************************)
Canvas == [width |-> 6, height |-> 6]

NumPixels == Canvas.width * Canvas.height
PixelIndex == 1 .. NumPixels
PixelX(i) == (i - 1) % Canvas.width
PixelY(i) == (i - 1) \div Canvas.width

Transparent == <<0, 0, 0, 0>>

\* a canvas right after its width is assigned, or after clearRect over all of it
Blank == Table([i \in PixelIndex |-> Transparent])

\* the video frames the camera delivers: a gradient, a flat and a dim frame
Frames == {"gradient", "flat", "dim"}

FramePixel(frame, i) ==
    IF frame = "gradient"
    THEN <<10 + 40 * PixelX(i), 20 + 30 * PixelY(i), 100, 255>>
    ELSE IF frame = "flat"
    THEN <<200, 180, 160, 255>>
    ELSE <<30, 6, 3, 255>>

\* the decoded images of the faces a caller loads, id |-> natural size and
\* (flat) colour: a square one, as the presets are, and a wide one
Images ==
    [ alex  |-> [width |-> 512, height |-> 512, rgb |-> <<255, 0, 0>>],
      sarah |-> [width |-> 512, height |-> 256, rgb |-> <<40, 90, 250>>] ]

FaceIds == DOMAIN Images

\* source-over of pixel s onto pixel d (Porter-Duff, straight alpha)
Over(s, d) ==
    IF s[4] = 0 THEN d
    ELSE IF s[4] = 255 \/ d[4] = 0 THEN s
    ELSE LET da == RoundDiv(d[4] * (255 - s[4]), 255)
             oa == s[4] + da
             Mix(c) == RoundDiv(s[c] * s[4] + d[c] * da, oa)
         IN  <<Mix(1), Mix(2), Mix(3), Min(255, oa)>>

(***************************************************************************)
(* The synthetic face geometry (the part processFrame reads).              *)
(***************************************************************************)
\* cos of 0, 10, ..., 90 degrees, in 1/10000
CosTable == <<10000, 9848, 9397, 8660, 7660, 6428, 5000, 3420, 1736, 0>>

\* cos and sin of i * 10 degrees, 0 <= i < 36, in 1/10000
Cos10(i) ==
    IF i <= 9 THEN CosTable[i + 1]
    ELSE IF i <= 18 THEN 0 - CosTable[18 - i + 1]
    ELSE IF i <= 27 THEN 0 - CosTable[i - 18 + 1]
    ELSE CosTable[36 - i + 1]
Sin10(i) == Cos10((i + 27) % 36)

\* c (in 1/10000) times k, rounded to the nearest integer
Scale(c, k) == IF c < 0 THEN 0 - RoundDiv((0 - c) * k, 10000) ELSE RoundDiv(c * k, 10000)

centerX == 5000
centerY == 4500
faceWidth == 3500
faceHeight == 4500
numPoints == 36

\* ovalPoints[i], 0-based i: the ellipse samples
OvalPoint(i) ==
    [x |-> centerX + Scale(Cos10(i), (faceWidth * 4) \div 10),
     y |-> centerY + Scale(Sin10(i), (faceHeight * 45) \div 100)]

BoundingBoxFromExtents ==
    [x |-> centerX - (faceWidth * 4) \div 10, y |-> centerY - (faceHeight * 45) \div 100,
     width |-> (faceWidth * 8) \div 10, height |-> (faceHeight * 9) \div 10]

\* boundingBox
BoundingBox ==
    [x |-> centerX - faceWidth \div 2, y |-> centerY - faceHeight \div 2,
     width |-> faceWidth, height |-> faceHeight]

\* the landmark index sets (0-based indices into landmarks)
FACE_OVAL_INDICES ==
    <<10, 338, 297, 332, 284, 251, 389, 356, 454, 323, 361, 288,
      397, 365, 379, 378, 400, 377, 152, 148, 176, 149, 150, 136,
      172, 58, 132, 93, 234, 127, 162, 21, 54, 103, 67, 109>>
LEFT_EYE_INDICES == <<33, 160, 158, 133, 153, 144>>
RIGHT_EYE_INDICES == <<362, 385, 387, 263, 373, 380>>
LipsIndicesOnOutline == <<10, 146, 91, 181, 84, 17, 314, 405, 321, 375, 291>>
LIPS_INDICES == <<61, 146, 91, 181, 84, 17, 314, 405, 321, 375, 291>>
NOSE_TIP_INDEX == 1

\* the number of placeholder landmarks
NumLandmarks == 468

\* A landmark off the face outline has coordinates computed with sin and cos
\* of non-round angles; the model keeps such a point as the formula that
\* gives it: the group it is computed for and its position i in the group.
Formula(kind, i) == [kind |-> kind, i |-> i]

\* the assignments of indices.forEach((idx, i) => landmarks[idx] = point(i)),
\* in the order they are made; points[k] is point(k - 1)
Writes(indices, points) ==
    [k \in 1 .. Len(indices) |-> [idx |-> indices[k], point |-> points[k]]]

\* the array arr after the assignments writes, made in order: an element
\* holds what the last assignment to its index gave it
AssignEach(arr, writes) ==
    [j \in 1 .. Len(arr) |->
        LET hits == {k \in 1 .. Len(writes) : writes[k].idx = j - 1}
        IN  IF hits = {} THEN arr[j]
            ELSE writes[CHOOSE k \in hits : \A other \in hits : other <= k].point]

MapIndicesReversed(arr, indices) ==
    [k \in 1 .. Len(indices) |-> arr[indices[Len(indices) - k + 1] + 1]]

\* indices.map(i => arr[i])
MapIndices(arr, indices) == [k \in 1 .. Len(indices) |-> arr[indices[k] + 1]]

\* ovalPoints
OvalPoints == Table([i \in 1 .. numPoints |-> OvalPoint(i - 1)])

\* landmarks, after the placeholder loop and the five groups of assignments
Landmarks ==
    LET placeholders == [i \in 1 .. NumLandmarks |-> Formula("placeholder", i - 1)]
        Points(kind, indices) == [k \in 1 .. Len(indices) |-> Formula(kind, k - 1)]
        OvalAt == [k \in 1 .. Len(FACE_OVAL_INDICES) |->
                      OvalPoints[((k - 1) % Len(OvalPoints)) + 1]]
    IN  Table(AssignEach(placeholders,
                         Writes(<<NOSE_TIP_INDEX>>, Points("noseTip", <<NOSE_TIP_INDEX>>))
                         \o Writes(LEFT_EYE_INDICES, Points("leftEye", LEFT_EYE_INDICES))
                         \o Writes(RIGHT_EYE_INDICES, Points("rightEye", RIGHT_EYE_INDICES))
                         \o Writes(LIPS_INDICES, Points("lips", LIPS_INDICES))
                         \o Writes(FACE_OVAL_INDICES, OvalAt)))

\* what generateFaceDetection returns
GeneratedFace ==
    [landmarks |-> Landmarks,
     boundingBox |-> BoundingBox,
     faceOval |-> Table(MapIndices(Landmarks, FACE_OVAL_INDICES)),
     leftEye |-> Table(MapIndices(Landmarks, LEFT_EYE_INDICES)),
     rightEye |-> Table(MapIndices(Landmarks, RIGHT_EYE_INDICES)),
     lips |-> Table(MapIndices(Landmarks, LIPS_INDICES)),
     noseTip |-> Landmarks[NOSE_TIP_INDEX + 1]]

\* base + amp * fn(arg / 10), for fn the sine or the cosine and arg in
\* tenths of a radian: a coordinate that is not a round number
Wave(base, amp, fn, arg) == [base |-> base, amp |-> amp, fn |-> fn, arg |-> arg]

\* the coordinates generateFaceDetection computes for a landmark off the face
\* outline (x and y in 1/10000)
PointOf(f) ==
    CASE f.kind = "placeholder" ->
           [x |-> Wave(centerX, 1000, "sin", f.i), y |-> Wave(centerY, 1000, "cos", f.i)]
      [] f.kind = "noseTip" -> [x |-> centerX, y |-> centerY + 500]
      [] f.kind = "leftEye" ->
           [x |-> (centerX - 800) + (f.i - 3) * 100,
            y |-> Wave(centerY - 500, 100, "sin", 10 * f.i)]
      [] f.kind = "rightEye" ->
           [x |-> (centerX + 800) + (f.i - 3) * 100,
            y |-> Wave(centerY - 500, 100, "sin", 10 * f.i)]
      [] f.kind = "lips" ->
           [x |-> centerX + (f.i - 5) * 150,
            y |-> Wave(centerY + 1500, 100, "sin", 5 * f.i)]

(***************************************************************************)
(* The second generator, generateSimpleFaceDetection of useMediaPipe.  It  *)
(* computes every coordinate itself; z is 0 in both generators and left    *)
(* out.                                                                    *)
(***************************************************************************)
SimpleLowerCentre ==
    [centerX |-> 5000, centerY |-> 5000, faceWidth |-> 3500, faceHeight |-> 4500,
     numPoints |-> 36]

\* centerX, centerY, faceWidth, faceHeight, numPoints of
\* generateSimpleFaceDetection
Simple ==
    [centerX |-> 5000, centerY |-> 4500, faceWidth |-> 3500, faceHeight |-> 4500,
     numPoints |-> 36]

\* ovalPoints of generateSimpleFaceDetection
SimpleOvalPoints ==
    Table([k \in 1 .. Simple.numPoints |->
             [x |-> Simple.centerX + Scale(Cos10(k - 1), (Simple.faceWidth * 4) \div 10),
              y |-> Simple.centerY + Scale(Sin10(k - 1), (Simple.faceHeight * 45) \div 100)]])

\* the point generateSimpleFaceDetection computes for position i of a group
SimplePoint(kind, i) ==
    CASE kind = "placeholder" ->
           [x |-> Wave(Simple.centerX, 1000, "sin", i),
            y |-> Wave(Simple.centerY, 1000, "cos", i)]
      [] kind = "noseTip" -> [x |-> Simple.centerX, y |-> Simple.centerY + 500]
      [] kind = "leftEye" ->
           LET leftEyeX == Simple.centerX - 800
               leftEyeY == Simple.centerY - 500
           IN  [x |-> leftEyeX + (i - 3) * 100, y |-> Wave(leftEyeY, 100, "sin", 10 * i)]
      [] kind = "rightEye" ->
           LET rightEyeX == Simple.centerX + 800
               rightEyeY == Simple.centerY - 500
           IN  [x |-> rightEyeX + (i - 3) * 100, y |-> Wave(rightEyeY, 100, "sin", 10 * i)]
      [] kind = "lips" ->
           LET lipsY == Simple.centerY + 1500
           IN  [x |-> Simple.centerX + (i - 5) * 150, y |-> Wave(lipsY, 100, "sin", 5 * i)]

\* landmarks of generateSimpleFaceDetection
SimpleLandmarks ==
    LET placeholders == [i \in 1 .. 468 |-> SimplePoint("placeholder", i - 1)]
        Points(kind, indices) == [k \in 1 .. Len(indices) |-> SimplePoint(kind, k - 1)]
        OvalAt == [k \in 1 .. Len(FACE_OVAL_INDICES) |->
                      SimpleOvalPoints[((k - 1) % Len(SimpleOvalPoints)) + 1]]
    IN  Table(AssignEach(placeholders,
                         Writes(<<1>>, Points("noseTip", <<1>>))
                         \o Writes(LEFT_EYE_INDICES, Points("leftEye", LEFT_EYE_INDICES))
                         \o Writes(RIGHT_EYE_INDICES, Points("rightEye", RIGHT_EYE_INDICES))
                         \o Writes(LIPS_INDICES, Points("lips", LIPS_INDICES))
                         \o Writes(FACE_OVAL_INDICES, OvalAt)))

\* what generateSimpleFaceDetection returns
GenerateSimpleFaceDetection ==
    [landmarks |-> SimpleLandmarks,
     boundingBox |-> [x |-> Simple.centerX - Simple.faceWidth \div 2,
                      y |-> Simple.centerY - Simple.faceHeight \div 2,
                      width |-> Simple.faceWidth, height |-> Simple.faceHeight],
     faceOval |-> Table(MapIndices(SimpleLandmarks, FACE_OVAL_INDICES)),
     leftEye |-> Table(MapIndices(SimpleLandmarks, LEFT_EYE_INDICES)),
     rightEye |-> Table(MapIndices(SimpleLandmarks, RIGHT_EYE_INDICES)),
     lips |-> Table(MapIndices(SimpleLandmarks, LIPS_INDICES)),
     noseTip |-> SimpleLandmarks[NOSE_TIP_INDEX + 1]]

\* a geometry whose derived views are empty
EmptyOvalFace ==
    [landmarks |-> <<>>, boundingBox |-> BoundingBox, faceOval |-> <<>>,
     leftEye |-> <<>>, rightEye |-> <<>>, lips |-> <<>>, noseTip |-> Formula("noseTip", 0)]

\* the sourceFace arguments of processFrame
Geometries == {None, "generated", "emptyOval"}
FaceOf(g) == IF g = "generated" THEN GeneratedFace ELSE EmptyOvalFace

(***************************************************************************)
(* FaceSwapEngine.processFrame, step by step.                              *)
(***************************************************************************)
\* the outcomes of reading pixels back: every read succeeds, the reads of the
\* source copy fail, or the reads of the scratch canvas fail
Readbacks == {"ok", "sourceFails", "scratchFails"}

padding == 15
sampleSize == 50

\* the pixels of each video frame at scratch size
VideoPixels == Table([frame \in Frames |-> Table([i \in PixelIndex |-> FramePixel(frame, i)])])

\* outCtx.drawImage(sourceVideo, 0, 0, width, height) on the output canvas
DrawVideo(frame) == VideoPixels[frame]

FaceRectOneSided(box) ==
    [x |-> (box.x * 100 * Canvas.width) \div 1000,
     y |-> (box.y * 100 * Canvas.height) \div 1000,
     w |-> (box.width * (100 + padding * 2) * Canvas.width) \div 1000,
     h |-> (box.height * (100 + padding * 2) * Canvas.height) \div 1000]

\* faceX, faceY, faceW, faceH in mpx
FaceRect(box) ==
    [x |-> ((box.x * 100 - box.width * padding) * Canvas.width) \div 1000,
     y |-> ((box.y * 100 - box.height * padding) * Canvas.height) \div 1000,
     w |-> (box.width * (100 + padding * 2) * Canvas.width) \div 1000,
     h |-> (box.height * (100 + padding * 2) * Canvas.height) \div 1000]

\* the ellipse of ctx.ellipse(centerX, centerY, faceW * 0.42, faceH * 0.48, ...)
ClipEllipse(rect) ==
    [cx |-> rect.x + rect.w \div 2, cy |-> rect.y + rect.h \div 2,
     rx |-> (rect.w * 42) \div 100, ry |-> (rect.h * 48) \div 100]

\* is the centre of pixel i inside the clip region
InClip(e, i) ==
    LET dx == Abs(PixelX(i) * 1000 + 500 - e.cx)
        dy == Abs(PixelY(i) * 1000 + 500 - e.cy)
    IN  /\ e.rx > 0 /\ e.ry > 0
        /\ dx <= e.rx /\ dy <= e.ry
        /\ LET u == (dx * 1000) \div e.rx
               v == (dy * 1000) \div e.ry
           IN  u * u + v * v <= 1000000

DrawRectCover(img, rect) ==
    LET drawW == (rect.w * 11) \div 10
        drawH == (rect.h * 11) \div 10
    IN  IF img.width * rect.h < rect.w * img.height
        THEN LET dh == (drawW * img.height) \div img.width
             IN  [x |-> rect.x - (rect.w * 5) \div 100, y |-> rect.y + (rect.h - dh) \div 2,
                  w |-> drawW, h |-> dh]
        ELSE LET dw == (drawH * img.width) \div img.height
             IN  [x |-> rect.x + (rect.w - dw) \div 2, y |-> rect.y - (rect.h * 5) \div 100,
                  w |-> dw, h |-> drawH]

\* drawX, drawY, drawW, drawH in mpx: the aspect-preserving fit
DrawRect(img, rect) ==
    LET drawW == (rect.w * 11) \div 10
        drawH == (rect.h * 11) \div 10
    IN  IF img.width * rect.h > rect.w * img.height   \* targetAspect > sourceAspect
        THEN LET dh == (drawW * img.height) \div img.width
             IN  [x |-> rect.x - (rect.w * 5) \div 100, y |-> rect.y + (rect.h - dh) \div 2,
                  w |-> drawW, h |-> dh]
        ELSE LET dw == (drawH * img.width) \div img.height
             IN  [x |-> rect.x + (rect.w - dw) \div 2, y |-> rect.y - (rect.h * 5) \div 100,
                  w |-> dw, h |-> drawH]

InRect(r, i) ==
    LET px == PixelX(i) * 1000 + 500
        py == PixelY(i) * 1000 + 500
    IN  r.x <= px /\ px < r.x + r.w /\ r.y <= py /\ py < r.y + r.h

GlobalAlphaPositive(blendAmount) ==
    IF 0 < blendAmount /\ blendAmount <= 100 THEN blendAmount ELSE 100

\* ctx.globalAlpha = blendAmount: the scratch ignores a value outside [0, 1]
\* and keeps the 1.0 of the freshly reset context
GlobalAlpha(blendAmount) ==
    IF 0 <= blendAmount /\ blendAmount <= 100 THEN blendAmount ELSE 100

KeepScratch(old) == old

\* this.canvas.width = width; this.canvas.height = height; clearRect
ResetScratch(old) == Blank

DrawTargetUnclipped(scratch, img, box, blendAmount) ==
    LET draw == DrawRect(img, FaceRect(box))
        src  == <<img.rgb[1], img.rgb[2], img.rgb[3],
                  RoundDiv(255 * GlobalAlpha(blendAmount), 100)>>
    IN  Table([i \in PixelIndex |->
            IF InRect(draw, i) THEN Over(src, scratch[i]) ELSE scratch[i]])

\* save, clip to the ellipse, drawImage(target) at globalAlpha, restore
DrawTarget(scratch, img, box, blendAmount) ==
    LET rect == FaceRect(box)
        clip == ClipEllipse(rect)
        draw == DrawRect(img, rect)
        src  == <<img.rgb[1], img.rgb[2], img.rgb[3],
                  RoundDiv(255 * GlobalAlpha(blendAmount), 100)>>
    IN  Table([i \in PixelIndex |->
            IF InClip(clip, i) /\ InRect(draw, i) THEN Over(src, scratch[i]) ELSE scratch[i]])

\* the pixels of the 50 x 50 sample block that lie on the canvas; getImageData
\* returns transparent black for the rest of the block
SampleBlock ==
    LET sx == Canvas.width \div 2 - sampleSize \div 2
        sy == Canvas.height \div 2 - sampleSize \div 2
    IN  {i \in PixelIndex : /\ sx <= PixelX(i) /\ PixelX(i) < sx + sampleSize
                            /\ sy <= PixelY(i) /\ PixelY(i) < sy + sampleSize}

RECURSIVE ChannelSum(_, _, _)
ChannelSum(surface, c, todo) ==
    IF todo = {} THEN 0
    ELSE LET i == CHOOSE j \in todo : TRUE
         IN  surface[i][c] + ChannelSum(surface, c, todo \ {i})

RatioUnclamped(srcSum, tgtSum) ==
    LET count == sampleSize * sampleSize
    IN  IF tgtSum = 0 THEN (srcSum * 1000) \div count ELSE (srcSum * 1000) \div tgtSum

\* clamp(srcMean / (tgtMean || 1)), in 1/1000; the means are the sums over count
Ratio(srcSum, tgtSum) ==
    LET count == sampleSize * sampleSize
        r == IF tgtSum = 0 THEN (srcSum * 1000) \div count ELSE (srcSum * 1000) \div tgtSum
    IN  Min(1500, Max(500, r))

\* applyColorCorrection; a failing getImageData is caught and skips the step
ApplyColorCorrection(scratch, frame, readback) ==
    IF readback # "ok" THEN scratch
    ELSE LET video == DrawVideo(frame)
             Adj(c) == Ratio(ChannelSum(video, c, SampleBlock), ChannelSum(scratch, c, SampleBlock))
             rAdj == Adj(1)
             gAdj == Adj(2)
             bAdj == Adj(3)
         IN  Table([i \in PixelIndex |->
                 IF scratch[i][4] > 0
                 THEN <<Min(255, RoundDiv(scratch[i][1] * rAdj, 1000)),
                        Min(255, RoundDiv(scratch[i][2] * gAdj, 1000)),
                        Min(255, RoundDiv(scratch[i][3] * bAdj, 1000)),
                        scratch[i][4]>>
                 ELSE scratch[i]])

\* the centre of the face outline, in mpx
OvalCenter(ovalPoints) ==
    LET n == Len(ovalPoints)
    IN  [x |-> SumSeq([k \in 1 .. n |-> ovalPoints[k].x * Canvas.width]) \div (n * 10),
         y |-> SumSeq([k \in 1 .. n |-> ovalPoints[k].y * Canvas.height]) \div (n * 10)]

\* the largest distance from the centre to an outline point, in mpx
OvalMaxDist(ovalPoints, c) ==
    MaxSeq([k \in 1 .. Len(ovalPoints) |->
        LET dx == (ovalPoints[k].x * Canvas.width) \div 10 - c.x
            dy == (ovalPoints[k].y * Canvas.height) \div 10 - c.y
        IN  Sqrt(dx * dx + dy * dy)])

FeatherAlphaOutward(a, i, c, maxDist, feather) ==
    LET dx == PixelX(i) * 1000 - c.x
        dy == PixelY(i) * 1000 - c.y
        dist == Sqrt(dx * dx + dy * dy)
        alpha == 1000 - (dist - maxDist) \div feather
    IN  IF dist > maxDist
        THEN Max(0, Min(255, RoundDiv(a * Max(0, alpha), 1000)))
        ELSE a

\* the alpha the feathering loop leaves in pixel i
FeatherAlpha(a, i, c, maxDist, feather) ==
    LET dx == PixelX(i) * 1000 - c.x
        dy == PixelY(i) * 1000 - c.y
        dist == Sqrt(dx * dx + dy * dy)
        featherStart == maxDist - feather * 1000
        alpha == 1000 - (dist - featherStart) \div feather    \* in 1/1000
    IN  IF dist > featherStart
        THEN Max(0, Min(255, RoundDiv(a * Max(0, alpha), 1000)))
        ELSE a

ApplyFeatheringAlways(scratch, face, feather, readback) ==
    IF Len(face.faceOval) = 0 THEN [threw |-> FALSE, canvas |-> scratch]
    ELSE IF readback = "scratchFails" THEN [threw |-> TRUE, canvas |-> scratch]
    ELSE LET c == OvalCenter(face.faceOval)
             maxDist == OvalMaxDist(face.faceOval, c)
             width == IF feather <= 0 THEN 1 ELSE feather
         IN  [threw |-> FALSE,
              canvas |-> Table([i \in PixelIndex |->
                  IF scratch[i][4] > 0
                  THEN <<scratch[i][1], scratch[i][2], scratch[i][3],
                         FeatherAlpha(scratch[i][4], i, c, maxDist, width)>>
                  ELSE scratch[i]])]

\* applyFeathering: [threw, scratch]; its getImageData is not guarded
ApplyFeathering(scratch, face, feather, readback) ==
    IF feather <= 0 THEN [threw |-> FALSE, canvas |-> scratch]
    ELSE IF Len(face.faceOval) = 0 THEN [threw |-> FALSE, canvas |-> scratch]
    ELSE IF readback = "scratchFails" THEN [threw |-> TRUE, canvas |-> scratch]
    ELSE LET c == OvalCenter(face.faceOval)
             maxDist == OvalMaxDist(face.faceOval, c)
         IN  [threw |-> FALSE,
              canvas |-> Table([i \in PixelIndex |->
                  IF scratch[i][4] > 0
                  THEN <<scratch[i][1], scratch[i][2], scratch[i][3],
                         FeatherAlpha(scratch[i][4], i, c, maxDist, feather)>>
                  ELSE scratch[i]])]

\* outCtx.drawImage(this.canvas, 0, 0) with source-over
AlphaOver(out, scratch) == Table([i \in PixelIndex |-> Over(scratch[i], out[i])])

\* the guard of processFrame's early return
PassThrough(g, target) == g = None \/ target = None

\* the option values a caller passes, in and out of range
BlendAmounts == {0, 95, 150}
FeatherAmounts == {20, 0, 0 - 5}
OptionSets ==
    [blendAmount : BlendAmounts, featherAmount : FeatherAmounts, colorCorrection : BOOLEAN]

\* processFrame after its early return: the overlay steps, run on the scratch
\* canvas as the reset left it
Overlay(frame, g, readback, target, opts, start) ==
    LET copied == DrawVideo(frame)
        face == FaceOf(g)
        drawn == DrawTarget(start, Images[target], face.boundingBox, opts.blendAmount)
        corrected == IF opts.colorCorrection = TRUE
                     THEN ApplyColorCorrection(drawn, frame, readback)
                     ELSE drawn
        feathered == ApplyFeathering(corrected, face, opts.featherAmount, readback)
    IN  IF feathered.threw
        THEN [out |-> copied, canvas |-> corrected, overlay |-> TRUE, threw |-> TRUE]
        ELSE [out |-> AlphaOver(copied, feathered.canvas),
              canvas |-> feathered.canvas, overlay |-> TRUE, threw |-> FALSE]

\* Overlay on a blank scratch canvas, evaluated once for each argument
OverlayOnBlank ==
    Table([a \in [frame : Frames, g : Geometries \ {None}, readback : Readbacks,
                  target : FaceIds, opts : OptionSets] |->
        Overlay(a.frame, a.g, a.readback, a.target, a.opts, Blank)])

ProcessFrameResetFirst(frame, g, readback, target, opts, oldCanvas) ==
    IF PassThrough(g, target)
    THEN [out |-> DrawVideo(frame), canvas |-> Blank, overlay |-> FALSE, threw |-> FALSE]
    ELSE OverlayOnBlank[[frame |-> frame, g |-> g, readback |-> readback,
                         target |-> target, opts |-> opts]]

\* processFrame(sourceVideo, sourceFace, outputCanvas) of an engine whose scratch
\* canvas holds oldCanvas: the output canvas, the scratch canvas, whether the
\* overlay steps ran, and whether the call threw
ProcessFrame(frame, g, readback, target, opts, oldCanvas) ==
    IF PassThrough(g, target)
    THEN [out |-> DrawVideo(frame), canvas |-> oldCanvas, overlay |-> FALSE, threw |-> FALSE]
    ELSE LET start == ResetScratch(oldCanvas)
         IN  IF start = Blank
             THEN OverlayOnBlank[[frame |-> frame, g |-> g, readback |-> readback,
                                  target |-> target, opts |-> opts]]
             ELSE Overlay(frame, g, readback, target, opts, start)

(***************************************************************************)
(* The engine.                                                             *)
(*                                                                         *)
(* targetFaceImage, options and canvas are the fields of FaceSwapEngine;   *)
(* output is the caller's output canvas.  loads holds one record per       *)
(* loadTargetFace call, in call order: the Image being decoded, with its   *)
(* onload / onerror handlers and the promise they settle.  Of a record,    *)
(* face and status are program state; the other fields are history kept    *)
(* for stating properties:                                                 *)
(*   startTarget  targetFaceImage when the call was made                   *)
(*   disturbed    another operation assigned targetFaceImage since then,   *)
(*                while this load was in flight                            *)
(*   cleared      "no": no clearTargetFace since the call; "during": the   *)
(*                last one ran while the load was in flight; "after": the  *)
(*                last one ran after the load had settled                  *)
(*   raced        another load was in flight when the call was made        *)
(*   seen         "nothing", or the target of the last processFrame call   *)
(*                made while this load was in flight                       *)
(* startTarget, disturbed and seen describe a load in flight and are reset *)
(* when it settles.                                                        *)
(* call records the last processFrame call: its arguments, the target it   *)
(* read, whether the overlay steps ran, whether it threw, and whether the  *)
(* scratch canvas held pixels of an earlier call when it was made.         *)
(* hook is the state of the useFaceSwap hook that owns the engine.         *)
(* calc holds the argument and the result of one step of processFrame      *)
(* taken on its own.                                                       *)
(***************************************************************************)
VARIABLES targetFaceImage, options, canvas, output, loads, call, hook, calc

vars == <<targetFaceImage, options, canvas, output, loads, call, hook, calc>>

OptionKeys == {"blendAmount", "featherAmount", "colorCorrection"}

\* the defaults of the constructor, which are also what useFaceSwap passes
DefaultOptions == [blendAmount |-> 95, featherAmount |-> 20, colorCorrection |-> FALSE]

\* Partial<FaceSwapOptions>: a record over some of the keys
Partials ==
    {[k \in ks |-> full[k]] :
        full \in OptionSets,
        ks \in SUBSET OptionKeys}

SpreadClamped(a, b) ==
    [k \in DOMAIN a \cup DOMAIN b |->
        IF k \notin DOMAIN b THEN a[k]
        ELSE IF k = "blendAmount" THEN Min(100, Max(0, b[k]))
        ELSE b[k]]

\* { ...a, ...b }
Spread(a, b) ==
    [k \in DOMAIN a \cup DOMAIN b |-> IF k \in DOMAIN b THEN b[k] ELSE a[k]]

Pending(k) == loads[k].status = "pending"

\* the value of call before the first processFrame call
NoCall ==
    [frame |-> None, g |-> None, readback |-> None, target |-> None,
     overlay |-> FALSE, threw |-> FALSE, dirty |-> FALSE]

\* the record of a load that has settled: its history fields are reset
Settled(l, status) ==
    [l EXCEPT !.status = status, !.startTarget = None, !.disturbed = FALSE,
              !.seen = "nothing"]

\* the feeds sent to the detection backend
Feeds == {"original", "swapped"}

\* the state of useFaceSwap after its first render: the React state
\* (isStreaming, isFaceSwapEnabled, selectedFace, currentFace), the refs
\* (animationFrameRef, with 0 for null; the two WebSocket refs, as the
\* readyState of the socket they hold), the camera stream of the video
\* element, the startStream calls waiting for the camera (starting), the
\* animation-frame callbacks the browser holds (pending: the id of each and
\* the isFaceSwapEnabled its closure captured) and the dependencies of the
\* render-loop effect as last committed (effect).  The error message is left
\* out.  History kept for stating properties: sent, how the last frame of
\* each feed was sent to the detection backend; stopped, whether stopStream
\* was called and startStream has not been called since.
HookInitial ==
    [isStreaming |-> FALSE, isFaceSwapEnabled |-> FALSE, selectedFace |-> None,
     currentFace |-> None,
     animationFrameRef |-> 0, ws |-> [feed \in Feeds |-> None],
     hasStream |-> FALSE, starting |-> 0,
     pending |-> {}, effect |-> [isStreaming |-> FALSE, isFaceSwapEnabled |-> FALSE],
     sent |-> [feed \in Feeds |-> None], stopped |-> FALSE]

\* no step of processFrame taken on its own
NoCalc == [box |-> None, rect |-> None, done |-> FALSE]

Init ==
    /\ targetFaceImage = None
    /\ options = Spread(DefaultOptions, <<>>)
    /\ canvas = Blank
    /\ output = Blank
    /\ loads = <<>>
    /\ call = NoCall
    /\ hook = HookInitial
    /\ calc = NoCalc

LoadTargetFaceResetting(face) ==
    /\ Len(loads) < MaxLoads
    /\ targetFaceImage' = None
    /\ loads' = Append(loads, [face |-> face, status |-> "pending",
                               startTarget |-> targetFaceImage, disturbed |-> FALSE,
                               cleared |-> "no", seen |-> "nothing",
                               raced |-> \E k \in DOMAIN loads : Pending(k)])
    /\ UNCHANGED <<options, canvas, output, call, hook, calc>>

\* loadTargetFace(face), up to its return of the pending promise
LoadTargetFace(face) ==
    /\ Len(loads) < MaxLoads
    /\ loads' = Append(loads, [face |-> face, status |-> "pending",
                               startTarget |-> targetFaceImage, disturbed |-> FALSE,
                               cleared |-> "no", seen |-> "nothing",
                               raced |-> \E k \in DOMAIN loads : Pending(k)])
    /\ UNCHANGED <<targetFaceImage, options, canvas, output, call, hook, calc>>

\* img.onload of the k-th load
ImgOnload(k) ==
    /\ Pending(k)
    /\ targetFaceImage' = loads[k].face
    /\ loads' = [j \in DOMAIN loads |->
                    IF j = k THEN Settled(loads[j], "resolved")
                    ELSE IF Pending(j) THEN [loads[j] EXCEPT !.disturbed = TRUE]
                    ELSE loads[j]]
    /\ UNCHANGED <<options, canvas, output, call, hook, calc>>

ImgOnerrorClearing(k) ==
    /\ Pending(k)
    /\ targetFaceImage' = None
    /\ loads' = [loads EXCEPT ![k] = Settled(loads[k], "rejected")]
    /\ UNCHANGED <<options, canvas, output, call, hook, calc>>

\* img.onerror of the k-th load
ImgOnerror(k) ==
    /\ Pending(k)
    /\ loads' = [loads EXCEPT ![k] = Settled(loads[k], "rejected")]
    /\ UNCHANGED <<targetFaceImage, options, canvas, output, call, hook, calc>>

ClearKeepingTarget ==
    /\ loads' = [j \in DOMAIN loads |->
                    IF Pending(j)
                    THEN [loads[j] EXCEPT !.disturbed = TRUE, !.cleared = "during"]
                    ELSE [loads[j] EXCEPT !.cleared = "after"]]
    /\ UNCHANGED <<targetFaceImage, options, canvas, output, call, hook, calc>>

\* clearTargetFace()
ClearTargetFace ==
    /\ targetFaceImage' = None
    /\ loads' = [j \in DOMAIN loads |->
                    IF Pending(j)
                    THEN [loads[j] EXCEPT !.disturbed = TRUE, !.cleared = "during"]
                    ELSE [loads[j] EXCEPT !.cleared = "after"]]
    /\ UNCHANGED <<options, canvas, output, call, hook, calc>>

\* dispose()
Dispose == ClearTargetFace

\* setOptions(partial)
SetOptions(partial) ==
    /\ options' = Spread(options, partial)
    /\ UNCHANGED <<targetFaceImage, canvas, output, loads, call, hook, calc>>

\* hasTargetFace()
HasTargetFace == targetFaceImage # None

\* processFrame(frame, g, outputCanvas), with the outcome r of the pixel reads
ProcessFrameCall(frame, g, r) ==
    LET res == ProcessFrame(frame, g, r, targetFaceImage, options, canvas)
    IN  /\ UNCHANGED <<targetFaceImage, options, hook, calc>>
        /\ call' = [frame |-> frame, g |-> g, readback |-> r, target |-> targetFaceImage,
                    overlay |-> res.overlay, threw |-> res.threw,
                    dirty |-> canvas # Blank]
        /\ loads' = [j \in DOMAIN loads |->
                        IF Pending(j) THEN [loads[j] EXCEPT !.seen = targetFaceImage]
                        ELSE loads[j]]
        /\ output' = res.out
        /\ canvas' = res.canvas

\* The engine over its whole life: loads, their completions, clears, option
\* changes and composites, over same-origin surfaces whose pixels can be
\* read, with the geometry the render loop generates or none.
Next ==
    \/ \E face \in FaceIds : LoadTargetFace(face)
    \/ \E k \in DOMAIN loads : ImgOnload(k)
    \/ \E k \in DOMAIN loads : ImgOnerror(k)
    \/ ClearTargetFace
    \/ Dispose
    \/ \E partial \in {<<>>, [blendAmount |-> 0, featherAmount |-> 0]} : SetOptions(partial)
    \/ \E frame \in Frames, g \in {None, "generated"} : ProcessFrameCall(frame, g, "ok")

Spec == Init /\ [][Next]_vars

\* The compositor on its own: an engine that holds any target (or none) and
\* has no load in flight, under every option setting and every input.
FrameInit ==
    /\ targetFaceImage \in FaceIds \cup {None}
    /\ options = Spread(DefaultOptions, <<>>)
    /\ canvas = Blank
    /\ output = Blank
    /\ loads = <<>>
    /\ call = NoCall
    /\ hook = HookInitial
    /\ calc = NoCalc

FrameNext ==
    \/ \E partial \in Partials : SetOptions(partial)
    \/ \E frame \in Frames, g \in Geometries, r \in Readbacks : ProcessFrameCall(frame, g, r)
    \/ ClearTargetFace

FrameSpec == FrameInit /\ [][FrameNext]_vars

(***************************************************************************)
(* The face rectangle of processFrame on its own, for the bounding box of  *)
(* the generator and for a grid of boxes of other positions and sizes.     *)
(***************************************************************************)
Boxes ==
    {BoundingBox} \cup
    [x : {2000 * k : k \in 0 .. MaxBoxSteps}, y : {2000 * k : k \in 0 .. MaxBoxSteps},
     width : {1500 * k : k \in 1 .. MaxBoxSteps},
     height : {1500 * k : k \in 1 .. MaxBoxSteps}]

RectInit ==
    /\ targetFaceImage = None
    /\ options = Spread(DefaultOptions, <<>>)
    /\ canvas = Blank
    /\ output = Blank
    /\ loads = <<>>
    /\ call = NoCall
    /\ hook = HookInitial
    /\ calc \in [box : Boxes, rect : {None}, done : {FALSE}]

\* faceX, faceY, faceW, faceH computed for sourceFace.boundingBox = calc.box
FaceRectCall ==
    /\ ~calc.done
    /\ calc' = [calc EXCEPT !.rect = FaceRect(calc.box), !.done = TRUE]
    /\ UNCHANGED <<targetFaceImage, options, canvas, output, loads, call, hook>>

RectNext == FaceRectCall

RectSpec == RectInit /\ [][RectNext]_vars

(***************************************************************************)
(* The draw rectangle of processFrame on its own, for decoded images of    *)
(* several shapes and a grid of face rectangles (mpx).                     *)
(***************************************************************************)
ImageSizes ==
    {[width |-> Images[f].width, height |-> Images[f].height] : f \in FaceIds}
    \cup {[width |-> 256, height |-> 512], [width |-> 300, height |-> 200]}

Rects ==
    [x : {0, 1200}, y : {0 - 600, 0},
     w : {6000 * k : k \in 1 .. MaxRectSteps}, h : {6000 * k : k \in 1 .. MaxRectSteps}]

DrawInit ==
    /\ targetFaceImage = None
    /\ options = Spread(DefaultOptions, <<>>)
    /\ canvas = Blank
    /\ output = Blank
    /\ loads = <<>>
    /\ call = NoCall
    /\ hook = HookInitial
    /\ calc \in [img : ImageSizes, rect : Rects, draw : {None}, done : {FALSE}]

\* drawX, drawY, drawW, drawH computed for the image calc.img and the face
\* rectangle calc.rect
DrawRectCall ==
    /\ ~calc.done
    /\ calc' = [calc EXCEPT !.draw = DrawRect(calc.img, calc.rect), !.done = TRUE]
    /\ UNCHANGED <<targetFaceImage, options, canvas, output, loads, call, hook>>

DrawNext == DrawRectCall

DrawSpec == DrawInit /\ [][DrawNext]_vars

(***************************************************************************)
(* The feathering step of processFrame on its own: applyFeathering on the  *)
(* scratch canvas a clipped draw leaves, for faces k times the size of the *)
(* generated one and several feather widths and drawing alphas.            *)
(***************************************************************************)
ScaledFace(k) ==
    [GeneratedFace EXCEPT
        !.boundingBox = [x |-> centerX - (k * faceWidth) \div 2,
                         y |-> centerY - (k * faceHeight) \div 2,
                         width |-> k * faceWidth, height |-> k * faceHeight],
        !.faceOval = [j \in 1 .. Len(OvalPoints) |->
                         [x |-> centerX + k * (OvalPoints[j].x - centerX),
                          y |-> centerY + k * (OvalPoints[j].y - centerY)]]]

\* the scratch canvas before feathering
FeatherInput(c) ==
    DrawTarget(Blank, Images[c.target], ScaledFace(c.scale).boundingBox, c.blend)

FeatherInit ==
    /\ targetFaceImage = None
    /\ options = Spread(DefaultOptions, <<>>)
    /\ canvas = Blank
    /\ output = Blank
    /\ loads = <<>>
    /\ call = NoCall
    /\ hook = HookInitial
    /\ calc \in [scale : 1 .. MaxOvalScale, feather : {1, 2, 3, 20}, target : FaceIds,
                 blend : {50, 95, 100}, out : {Blank}, done : {FALSE}]

\* applyFeathering(face, width, height) with featherAmount = calc.feather
ApplyFeatheringCall ==
    /\ ~calc.done
    /\ calc' = [calc EXCEPT !.out = ApplyFeathering(FeatherInput(calc), ScaledFace(calc.scale),
                                                    calc.feather, "ok").canvas,
                            !.done = TRUE]
    /\ UNCHANGED <<targetFaceImage, options, canvas, output, loads, call, hook>>

FeatherNext == ApplyFeatheringCall

FeatherSpec == FeatherInit /\ [][FeatherNext]_vars

(***************************************************************************)
(* The hook useFaceSwap, which owns one engine.  Each action is one task   *)
(* of the event loop: a call of one of the hook's functions up to its      *)
(* first await, the continuation of an await, an animation-frame callback, *)
(* or React committing the render-loop effect after a state change.        *)
(***************************************************************************)
\* the dependencies of the render-loop effect in the current React state
Deps(h) == [isStreaming |-> h.isStreaming, isFaceSwapEnabled |-> h.isFaceSwapEnabled]

\* an id requestAnimationFrame has not handed out to a callback still held
\* or still referred to
FreshId(h) ==
    CHOOSE n \in 1 .. Cardinality(h.pending) + 2 :
        n # h.animationFrameRef /\ \A p \in h.pending : p.id # n

\* animationFrameRef.current = requestAnimationFrame(render), for the render
\* closure that captured isFaceSwapEnabled = swap
RequestFrame(h, swap) ==
    LET id == FreshId(h)
    IN  [h EXCEPT !.pending = @ \cup {[id |-> id, swap |-> swap]},
                  !.animationFrameRef = id]

\* cancelAnimationFrame(id)
CancelFrame(h, id) == [h EXCEPT !.pending = {p \in @ : p.id # id}]

GenerateFromTarget ==
    [GeneratedFace EXCEPT !.boundingBox.x = IF targetFaceImage = "alex" THEN @ ELSE 0]

\* the geometry a call of generateFaceDetection() returns
GenerateFaceDetection == GeneratedFace

\* the sourceFace argument that stands for a geometry
LabelOf(face) == IF face = EmptyOvalFace THEN "emptyOval" ELSE "generated"

\* startStream() up to await getUserMedia
StartStreamCall ==
    /\ hook.starting < MaxStarts
    /\ hook' = [hook EXCEPT !.starting = @ + 1, !.stopped = FALSE]
    /\ UNCHANGED <<targetFaceImage, options, canvas, output, loads, call, calc>>

\* startStream() after the camera was granted and video.play() resolved
StartStreamGranted ==
    /\ hook.starting > 0
    /\ hook' = [hook EXCEPT !.starting = @ - 1, !.hasStream = TRUE,
                            !.ws = [feed \in Feeds |-> "connecting"],
                            !.isStreaming = TRUE]
    /\ UNCHANGED <<targetFaceImage, options, canvas, output, loads, call, calc>>

\* startStream() when getUserMedia rejects (got = FALSE) or video.play()
\* rejects after the stream was attached (got = TRUE)
StartStreamFailed(got) ==
    /\ hook.starting > 0
    /\ hook' = [hook EXCEPT !.starting = @ - 1, !.hasStream = @ \/ got]
    /\ UNCHANGED <<targetFaceImage, options, canvas, output, loads, call, calc>>

\* stopStream()
StopStream ==
    /\ LET cancelled == IF hook.animationFrameRef # 0
                        THEN CancelFrame(hook, hook.animationFrameRef)
                        ELSE hook
       IN  hook' = [cancelled EXCEPT !.hasStream = FALSE, !.animationFrameRef = 0,
                                     !.ws = [feed \in Feeds |-> None],
                                     !.isStreaming = FALSE, !.currentFace = None,
                                     !.stopped = TRUE]
    /\ UNCHANGED <<targetFaceImage, options, canvas, output, loads, call, calc>>

\* React commits the render-loop effect after isStreaming or
\* isFaceSwapEnabled changed: the cleanup of the previous effect, then the
\* effect
CommitEffect ==
    /\ hook.effect # Deps(hook)
    /\ LET cleaned == IF hook.effect.isStreaming /\ hook.animationFrameRef # 0
                      THEN CancelFrame(hook, hook.animationFrameRef)
                      ELSE hook
           started == IF hook.isStreaming
                      THEN RequestFrame(cleaned, hook.isFaceSwapEnabled)
                      ELSE cleaned
       IN  hook' = [started EXCEPT !.effect = Deps(hook)]
    /\ UNCHANGED <<targetFaceImage, options, canvas, output, loads, call, calc>>

\* the animation-frame callback id runs render() on the video frame
RenderFrame(id, frame) ==
    /\ \E p \in hook.pending : p.id = id
    /\ LET p == CHOOSE q \in hook.pending : q.id = id
           fired == [hook EXCEPT !.pending = @ \ {p}]
       IN  IF p.swap /\ HasTargetFace
           THEN LET face == GenerateFaceDetection
                    res == ProcessFrame(frame, LabelOf(face), "ok", targetFaceImage,
                                        options, canvas)
                    drawn == [fired EXCEPT !.currentFace = LabelOf(face)]
                IN  /\ output' = res.out
                    /\ canvas' = res.canvas
                    /\ call' = [frame |-> frame, g |-> LabelOf(face), readback |-> "ok",
                                target |-> targetFaceImage, overlay |-> res.overlay,
                                threw |-> res.threw, dirty |-> canvas # Blank]
                    /\ loads' = [j \in DOMAIN loads |->
                                    IF Pending(j)
                                    THEN [loads[j] EXCEPT !.seen = targetFaceImage]
                                    ELSE loads[j]]
                    /\ hook' = IF res.threw THEN drawn ELSE RequestFrame(drawn, p.swap)
           ELSE /\ output' = DrawVideo(frame)
                /\ hook' = RequestFrame([fired EXCEPT !.currentFace = None], p.swap)
                /\ UNCHANGED <<canvas, call, loads>>
    /\ UNCHANGED <<targetFaceImage, options, calc>>

\* selectFace(face) up to await loadTargetFace
SelectFaceCall(face) ==
    /\ Len(loads) < MaxSelects
    /\ loads' = Append(loads, [face |-> face, status |-> "pending",
                               startTarget |-> targetFaceImage, disturbed |-> FALSE,
                               cleared |-> "no", seen |-> "nothing",
                               raced |-> \E k \in DOMAIN loads : Pending(k)])
    /\ UNCHANGED <<targetFaceImage, options, canvas, output, call, hook, calc>>

\* the image of the k-th load decodes: img.onload, then the rest of selectFace
SelectFaceLoaded(k) ==
    /\ Pending(k)
    /\ targetFaceImage' = loads[k].face
    /\ loads' = [j \in DOMAIN loads |->
                    IF j = k THEN Settled(loads[j], "resolved")
                    ELSE IF Pending(j) THEN [loads[j] EXCEPT !.disturbed = TRUE]
                    ELSE loads[j]]
    /\ hook' = [hook EXCEPT !.selectedFace = loads[k].face, !.isFaceSwapEnabled = TRUE]
    /\ UNCHANGED <<options, canvas, output, call, calc>>

\* the image of the k-th load fails: img.onerror, then the catch of selectFace
SelectFaceFailed(k) ==
    /\ Pending(k)
    /\ loads' = [loads EXCEPT ![k] = Settled(loads[k], "rejected")]
    /\ UNCHANGED <<targetFaceImage, options, canvas, output, call, hook, calc>>

\* clearFace()
ClearFace ==
    /\ targetFaceImage' = None
    /\ loads' = [j \in DOMAIN loads |->
                    IF Pending(j)
                    THEN [loads[j] EXCEPT !.disturbed = TRUE, !.cleared = "during"]
                    ELSE [loads[j] EXCEPT !.cleared = "after"]]
    /\ hook' = [hook EXCEPT !.selectedFace = None, !.isFaceSwapEnabled = FALSE]
    /\ UNCHANGED <<options, canvas, output, call, calc>>

\* toggleFaceSwap()
ToggleFaceSwap ==
    /\ hook' = IF hook.selectedFace = None
               THEN hook
               ELSE [hook EXCEPT !.isFaceSwapEnabled = ~@]
    /\ UNCHANGED <<targetFaceImage, options, canvas, output, loads, call, calc>>

\* the WebSocket of a feed opens
WsOpen(feed) ==
    /\ hook.ws[feed] = "connecting"
    /\ hook' = [hook EXCEPT !.ws[feed] = "open"]
    /\ UNCHANGED <<targetFaceImage, options, canvas, output, loads, call, calc>>

\* sendToDetection(canvas, feed): over the WebSocket of the feed when it is
\* open, by the REST upload otherwise.  Nothing in the hook calls it and the
\* hook does not return it, so it is no step of HookNext.
SendToDetection(feed) ==
    /\ hook' = [hook EXCEPT !.sent[feed] = IF hook.ws[feed] = "open" THEN "ws" ELSE "rest"]
    /\ UNCHANGED <<targetFaceImage, options, canvas, output, loads, call, calc>>

HookNext ==
    \/ StartStreamCall
    \/ StartStreamGranted
    \/ \E got \in BOOLEAN : StartStreamFailed(got)
    \/ StopStream
    \/ CommitEffect
    \/ \E p \in hook.pending : RenderFrame(p.id, "gradient")
    \/ \E face \in FaceIds : SelectFaceCall(face)
    \/ \E k \in DOMAIN loads : SelectFaceLoaded(k)
    \/ \E k \in DOMAIN loads : SelectFaceFailed(k)
    \/ ClearFace
    \/ ToggleFaceSwap
    \/ \E feed \in Feeds : WsOpen(feed)

HookSpec == Init /\ [][HookNext]_vars

\* The hook in a browser that keeps running: React commits an effect whose
\* dependencies changed, and a requested animation frame fires unless it is
\* cancelled first.
HookFairSpec ==
    /\ HookSpec
    /\ WF_vars(CommitEffect)
    /\ WF_vars(\E p \in hook.pending : RenderFrame(p.id, "gradient"))

(***************************************************************************)
(* The hook useRealtimeDetection: the handlers of the WebSocket that        *)
(* connect() opens.  calc holds the React state of the hook (isConnected,  *)
(* lastResult, results, error) and, as history, every detection result in  *)
(* arrival order (arrived).  The n-th detection_result message carries      *)
(* timestamp n; the backend flags every period-th frame as fake.           *)
(***************************************************************************)
\* Array.prototype.slice(start) for a negative or zero start
Slice(arr, start) ==
    SubSeq(arr, Max(Len(arr) + start, 0) + 1, Len(arr))

\* the n-th detection_result message of the backend
DetectionResultMessage(n, period) ==
    [type |-> "detection_result", is_fake |-> n % period = 0,
     confidence |-> (n * 37) % 100, timestamp |-> n,
     processing_time_ms |-> 10 + (n % 3), model |-> "default"]

\* the messages of the backend that are not detection results
OtherMessages ==
    {[type |-> "connected"], [type |-> "error", message |-> "bad frame"]}

\* the DetectionResult that ws.onmessage builds from a message
ResultOf(message) ==
    [is_fake |-> message.is_fake, confidence |-> message.confidence,
     timestamp |-> message.timestamp,
     processing_time_ms |-> message.processing_time_ms, model |-> message.model]

AppendResultKeepingFifty(prev, result) == Slice(prev, -50) \o <<result>>

\* the updater passed to setResults: [...prev.slice(-49), result]
AppendResult(prev, result) == Slice(prev, -49) \o <<result>>

RealtimeInit ==
    /\ targetFaceImage = None
    /\ options = Spread(DefaultOptions, <<>>)
    /\ canvas = Blank
    /\ output = Blank
    /\ loads = <<>>
    /\ call = NoCall
    /\ hook = HookInitial
    /\ calc \in [isConnected : {FALSE}, lastResult : {None}, results : {<<>>},
                 error : {None}, arrived : {<<>>}, period : 1 .. 3]

\* ws.onopen
WsOnOpen ==
    /\ ~calc.isConnected
    /\ calc' = [calc EXCEPT !.isConnected = TRUE, !.error = None]
    /\ UNCHANGED <<targetFaceImage, options, canvas, output, loads, call, hook>>

\* ws.onmessage
WsOnMessage(message) ==
    /\ calc.isConnected
    /\ calc' = IF message.type = "detection_result"
               THEN [calc EXCEPT !.lastResult = ResultOf(message),
                                 !.results = AppendResult(@, ResultOf(message)),
                                 !.arrived = Append(@, ResultOf(message))]
               ELSE IF message.type = "error"
               THEN [calc EXCEPT !.error = message.message]
               ELSE calc
    /\ UNCHANGED <<targetFaceImage, options, canvas, output, loads, call, hook>>

\* ws.onclose
WsOnClose ==
    /\ calc.isConnected
    /\ calc' = [calc EXCEPT !.isConnected = FALSE]
    /\ UNCHANGED <<targetFaceImage, options, canvas, output, loads, call, hook>>

RealtimeNext ==
    \/ WsOnOpen
    \/ /\ Len(calc.arrived) < MaxMessages
       /\ WsOnMessage(DetectionResultMessage(Len(calc.arrived) + 1, calc.period))
    \/ \E message \in OtherMessages : WsOnMessage(message)
    \/ WsOnClose

RealtimeSpec == RealtimeInit /\ [][RealtimeNext]_vars

(***************************************************************************)
(* The hook useDetection.  calc holds the React state of the hook (result,  *)
(* isLoading, error) and one record per detect call, in call order          *)
(* (detects): the file and whether the call is still awaiting detectMedia.  *)
(* As history, resetLast tells that reset() has been called and detect has  *)
(* not been called since.                                                    *)
(***************************************************************************)
Files == {"photo.jpg", "clip.mp4"}

\* result when it is null (a response is a record, which cannot be compared
\* with None)
NoResponse == [id |-> None, status |-> None, media_type |-> None]

\* the response of the backend to an upload
DetectMedia(file) ==
    [id |-> file, status |-> "completed",
     media_type |-> IF file = "clip.mp4" THEN "video" ELSE "image"]

\* the message the catch of detect stores: err.message of an Error, or the
\* fallback for any other thrown value
DetectErrors == {"Network Error", "Detection failed"}

InFlight(k) == calc.detects[k].status = "pending"

DetectInit ==
    /\ targetFaceImage = None
    /\ options = Spread(DefaultOptions, <<>>)
    /\ canvas = Blank
    /\ output = Blank
    /\ loads = <<>>
    /\ call = NoCall
    /\ hook = HookInitial
    /\ calc = [result |-> NoResponse, isLoading |-> FALSE, error |-> None,
               detects |-> <<>>, resetLast |-> FALSE]

\* detect(file) up to its await
DetectCall(file) ==
    /\ Len(calc.detects) < MaxDetects
    /\ calc' = [calc EXCEPT !.isLoading = TRUE, !.error = None, !.result = NoResponse,
                            !.detects = Append(@, [file |-> file, status |-> "pending"]),
                            !.resetLast = FALSE]
    /\ UNCHANGED <<targetFaceImage, options, canvas, output, loads, call, hook>>

\* detectMedia of the k-th call resolves: the rest of the try, then finally
DetectResolved(k) ==
    /\ InFlight(k)
    /\ calc' = [calc EXCEPT !.result = DetectMedia(calc.detects[k].file),
                            !.isLoading = FALSE,
                            !.detects[k].status = "resolved"]
    /\ UNCHANGED <<targetFaceImage, options, canvas, output, loads, call, hook>>

\* detectMedia of the k-th call rejects: the catch, then finally
DetectRejected(k, message) ==
    /\ InFlight(k)
    /\ calc' = [calc EXCEPT !.error = message,
                            !.isLoading = FALSE,
                            !.detects[k].status = "rejected"]
    /\ UNCHANGED <<targetFaceImage, options, canvas, output, loads, call, hook>>

\* reset()
ResetDetection ==
    /\ calc' = [calc EXCEPT !.result = NoResponse, !.error = None, !.isLoading = FALSE,
                            !.resetLast = TRUE]
    /\ UNCHANGED <<targetFaceImage, options, canvas, output, loads, call, hook>>

DetectNext ==
    \/ \E file \in Files : DetectCall(file)
    \/ \E k \in DOMAIN calc.detects : DetectResolved(k)
    \/ \E k \in DOMAIN calc.detects, message \in DetectErrors : DetectRejected(k, message)
    \/ ResetDetection

DetectSpec == DetectInit /\ [][DetectNext]_vars

(***************************************************************************)
(* Properties of the target lifecycle.                                     *)
(***************************************************************************)
\* the loads that were in flight when clearTargetFace ran
ClearedInFlight == {k \in DOMAIN loads : loads[k].cleared = "during"}

\* no load started after the last clearTargetFace has completed successfully
NoLoadSinceClear ==
    \A k \in DOMAIN loads : loads[k].cleared = "no" => loads[k].status # "resolved"

\* C1: when clearTargetFace ran while loads were in flight, then once those
\* loads have all settled (in any order), and unless a load started after the
\* clear has completed, hasTargetFace() is false: the clear wins over every
\* load started before it.
ClearWinsOverPendingLoads ==
    ( /\ ClearedInFlight # {}
      /\ \A k \in ClearedInFlight : ~Pending(k)
      /\ NoLoadSinceClear )
    => ~HasTargetFace

\* C2: last load wins.  When a load was started while an earlier one was in
\* flight, then once every load has settled, the later one successfully and
\* with no clear in between, the target is the image of the later load,
\* whatever the order of completion.
LastLoadWins ==
    LET last == Len(loads)
    IN  ( /\ last >= 2
          /\ loads[last].raced
          /\ \A k \in DOMAIN loads : loads[k].status = "resolved" /\ loads[k].cleared = "no" )
        => targetFaceImage = loads[last].face

\* C3: when the image of a load cannot be decoded, its promise rejects and
\* the target is what it was before the step; if no other operation assigned
\* the target while the load was in flight, that is the target held when
\* loadTargetFace was called (an image, or none).
DecodeFailureKeepsTarget ==
    [][\A k \in DOMAIN loads :
          (Pending(k) /\ loads'[k].status = "rejected")
          => /\ targetFaceImage' = targetFaceImage
             /\ (~loads[k].disturbed => targetFaceImage' = loads[k].startTarget)]_vars

\* a load was rejected after an earlier one had installed a target, which is
\* still held
DecodeFailureWitness ==
    /\ Len(loads) = 2
    /\ loads[1].status = "resolved" /\ loads[2].status = "rejected"
    /\ ~loads[2].raced
    /\ loads[1].cleared = "no"
    /\ targetFaceImage = loads[1].face

NoTargetOrGeometryPassesThrough ==
    [][\A frame \in Frames, g \in Geometries, r \in Readbacks :
          ((targetFaceImage = None \/ g = None) /\ ProcessFrameCall(frame, g, r))
          => /\ output' = VideoPixels[frame]
             /\ canvas' = canvas
             /\ ~call'.overlay /\ ~call'.threw]_vars

\* a call with a target but no geometry copied the frame and left the pixels
\* of an earlier overlay on the scratch canvas
PassThroughWitness ==
    /\ call.frame # None /\ call.g = None /\ call.target # None
    /\ ~call.overlay
    /\ call.dirty /\ canvas # Blank
    /\ output = VideoPixels[call.frame]

\* a target is held exactly when a load has completed successfully since the
\* last clearTargetFace or dispose
HeldSinceLastClear ==
    HasTargetFace <=>
        \E k \in DOMAIN loads : loads[k].status = "resolved" /\ loads[k].cleared # "after"

\* C6: hasTargetFace() is true exactly when a target image is held: false
\* after construction, true once a load has completed successfully, false
\* after clearTargetFace or dispose, whatever loads, option changes and
\* composites are made; the one target held after a successful load is the
\* image of that load.
HasTargetIffHeld ==
    [][/\ HeldSinceLastClear /\ HeldSinceLastClear'
       /\ (loads = <<>> => ~HasTargetFace)
       /\ \A k \in DOMAIN loads :
            (Pending(k) /\ loads'[k].status = "resolved")
            => targetFaceImage' = loads[k].face /\ HasTargetFace'
       /\ (\A k \in DOMAIN loads : loads'[k].cleared = "after") => ~HasTargetFace']_vars

\* a second successful load has replaced the target of the first
HasTargetWitness ==
    /\ Len(loads) = 2
    /\ loads[1].status = "resolved" /\ loads[2].status = "resolved"
    /\ ~loads[2].raced
    /\ loads[1].face # loads[2].face
    /\ targetFaceImage = loads[2].face
    /\ HasTargetFace

\* C7: once clearTargetFace has run, every processFrame call writes a copy of
\* the source frame, until a load started after the clear completes
\* successfully.
PassThroughAfterClear ==
    [][\A frame \in Frames, g \in {None, "generated"} :
          ( /\ ProcessFrameCall(frame, g, "ok")
            /\ \E k \in DOMAIN loads : loads[k].cleared # "no"
            /\ NoLoadSinceClear )
          => output' = VideoPixels[frame]]_vars

\* C8: setOptions(partial) gives each option named in partial exactly the
\* given value, in range or not, and leaves the options not named and the
\* target as they were.  (A setOptions step is not a processFrame call: it
\* leaves the record of the last call as it was.)
SetOptionsMergesExactly ==
    [][\A partial \in Partials :
          (call' = call /\ SetOptions(partial))
          => /\ \A key \in OptionKeys :
                  options'[key] = IF key \in DOMAIN partial THEN partial[key] ELSE options[key]
             /\ DOMAIN options' = OptionKeys
             /\ targetFaceImage' = targetFaceImage]_vars

\* out-of-range amounts are stored as given, next to an option left alone
SetOptionsWitness ==
    /\ options.blendAmount = 150
    /\ options.featherAmount = 0 - 5
    /\ options.colorCorrection = DefaultOptions.colorCorrection
    /\ targetFaceImage # None

\* C9: processFrame keeps no state from frame to frame: a call changes
\* neither the target nor the options, and what it writes is fixed by its
\* source frame, geometry, target and options (and by whether the pixels can
\* be read), whatever earlier calls left on the scratch canvas.
ProcessFrameKeepsNoState ==
    [][\A frame \in Frames, g \in Geometries, r \in Readbacks :
          ProcessFrameCall(frame, g, r)
          => /\ output' = ProcessFrame(frame, g, r, targetFaceImage, options, Blank).out
             /\ targetFaceImage' = targetFaceImage
             /\ options' = options]_vars

\* an overlay was composited on a scratch canvas that held an earlier one
SecondOverlayWitness ==
    /\ call.overlay /\ call.dirty /\ ~call.threw
    /\ output # VideoPixels[call.frame]

\* C10: with a target held and a geometry given, a processFrame call made
\* with blendAmount 0 leaves the output canvas equal to the copied source
\* frame, for every featherAmount and colorCorrection.
ZeroBlendPassesThrough ==
    [][\A frame \in Frames, g \in Geometries \ {None}, r \in Readbacks :
          ( /\ ProcessFrameCall(frame, g, r)
            /\ targetFaceImage # None
            /\ options.blendAmount = 0 )
          => output' = VideoPixels[frame]]_vars

\* an overlay with colour correction and feathering on, at blendAmount 0
ZeroBlendWitness ==
    /\ call.overlay /\ call.g = "generated" /\ call.readback = "ok"
    /\ options.blendAmount = 0
    /\ options.colorCorrection = TRUE
    /\ options.featherAmount = 20
    /\ output = VideoPixels[call.frame]

(***************************************************************************)
(* Properties of the overlay steps.                                        *)
(***************************************************************************)
\* pixel i lies wholly outside the rectangle r (in mpx)
OutsideRect(r, i) ==
    \/ (PixelX(i) + 1) * 1000 <= r.x \/ PixelX(i) * 1000 >= r.x + r.w
    \/ (PixelY(i) + 1) * 1000 <= r.y \/ PixelY(i) * 1000 >= r.y + r.h

\* C11: in every processFrame call with a target and a geometry the overlay
\* stays inside the ellipse centred on the padded face rectangle, with radii
\* 42% of its width and 48% of its height: an output pixel whose centre is
\* outside that ellipse, and so every pixel outside the padded bounding box,
\* equals the pixel of the source frame.
OverlayConfinedToEllipse ==
    [][\A frame \in Frames, g \in Geometries \ {None}, r \in Readbacks :
          (ProcessFrameCall(frame, g, r) /\ targetFaceImage # None)
          => LET rect == FaceRect(FaceOf(g).boundingBox)
                 ellipse == [cx |-> rect.x + rect.w \div 2, cy |-> rect.y + rect.h \div 2,
                             rx |-> (rect.w * 42) \div 100, ry |-> (rect.h * 48) \div 100]
             IN  \A i \in PixelIndex :
                    (OutsideRect(rect, i) \/ ~InClip(ellipse, i))
                    => output'[i] = VideoPixels[frame][i]]_vars

\* an overlay changed a pixel inside the ellipse while pixels of the padded
\* rectangle outside the ellipse, and pixels outside the rectangle, exist
OverlayConfinedWitness ==
    /\ call.overlay /\ ~call.threw
    /\ LET rect == FaceRect(FaceOf(call.g).boundingBox)
       IN  /\ \E i \in PixelIndex :
                InClip(ClipEllipse(rect), i) /\ output[i] # VideoPixels[call.frame][i]
           /\ \E i \in PixelIndex :
                ~OutsideRect(rect, i) /\ ~InClip(ClipEllipse(rect), i)
                /\ InRect(DrawRect(Images[call.target], rect), i)
           /\ \E i \in PixelIndex : OutsideRect(rect, i)

\* C12: with featherAmount 0, or any value not above 0, applyFeathering
\* changes no pixel of the scratch canvas and reads none: after the call the
\* scratch canvas is what clipping, drawing and colour correction left, every
\* pixel keeps the alpha it was drawn with, and that alpha is 0 or the full
\* drawing alpha (a hard edge).
NoFeatherKeepsHardEdge ==
    [][\A frame \in Frames, g \in Geometries \ {None}, r \in Readbacks :
          ( /\ ProcessFrameCall(frame, g, r)
            /\ targetFaceImage # None
            /\ options.featherAmount <= 0 )
          => LET drawn == DrawTarget(Blank, Images[targetFaceImage], FaceOf(g).boundingBox,
                                     options.blendAmount)
                 full == RoundDiv(255 * GlobalAlpha(options.blendAmount), 100)
             IN  /\ ~call'.threw
                 /\ canvas' = IF options.colorCorrection
                              THEN ApplyColorCorrection(drawn, frame, r)
                              ELSE drawn
                 /\ \A i \in PixelIndex :
                      canvas'[i][4] = drawn[i][4] /\ canvas'[i][4] \in {0, full}]_vars

\* an overlay drawn at 95% with featherAmount 0 left pixels at the full
\* drawing alpha on the scratch canvas, with the oval of the generator
NoFeatherWitness ==
    /\ call.overlay /\ call.g = "generated"
    /\ options.featherAmount = 0 /\ options.blendAmount = 95
    /\ \E i \in PixelIndex : canvas[i][4] = RoundDiv(255 * 95, 100)
    /\ \A i \in PixelIndex : canvas[i][4] \in {0, RoundDiv(255 * 95, 100)}
    /\ output # VideoPixels[call.frame]

\* C13: with colorCorrection on, when reading the sample pixels fails, the
\* colour-correction step changes no pixel of the scratch canvas, processFrame
\* does not throw, and feathering and the final source-over draw still run,
\* on the uncorrected scratch canvas.
FailedSampleSkipsCorrectionOnly ==
    [][\A frame \in Frames, g \in Geometries \ {None}, r \in Readbacks \ {"ok"} :
          ( /\ ProcessFrameCall(frame, g, r)
            /\ targetFaceImage # None
            /\ options.colorCorrection = TRUE )
          => LET drawn == DrawTarget(Blank, Images[targetFaceImage], FaceOf(g).boundingBox,
                                     options.blendAmount)
                 feathered == ApplyFeathering(drawn, FaceOf(g), options.featherAmount, "ok")
             IN  /\ ~call'.threw
                 /\ canvas' = feathered.canvas
                 /\ output' = AlphaOver(VideoPixels[frame], feathered.canvas)]_vars

\* C14: a failing pixel read-back in colour correction or in feathering is
\* not fatal: processFrame does not throw, and the scratch canvas is still
\* drawn over the output canvas.
ReadbackFailureIsNotFatal ==
    [][\A frame \in Frames, g \in Geometries \ {None}, r \in Readbacks \ {"ok"} :
          (ProcessFrameCall(frame, g, r) /\ targetFaceImage # None)
          => /\ ~call'.threw
             /\ output' = AlphaOver(VideoPixels[frame], canvas')]_vars

ViewOf(face, view, indices) ==
    /\ Len(view) = Len(indices)
    /\ \A k \in 1 .. Len(indices) :
          /\ indices[k] \in 0 .. NumLandmarks - 1
          /\ view[k] = face.landmarks[indices[k] + 1]

\* C16: the geometry the generator returned for the frame last rendered
\* (currentFace) has exactly 468 landmarks, every index of the fixed index
\* sets lies in 0..467, and faceOval, leftEye, rightEye and lips have 36, 6,
\* 6 and 11 points, each the landmark at the corresponding index.
GeometryIsWellFormed ==
    hook.currentFace # None =>
    LET face == GenerateFaceDetection
    IN  /\ Len(face.landmarks) = 468
        /\ DOMAIN face.landmarks = 1 .. 468
        /\ NOSE_TIP_INDEX \in 0 .. 467
        /\ face.noseTip = face.landmarks[NOSE_TIP_INDEX + 1]
        /\ \A indices \in {FACE_OVAL_INDICES, LEFT_EYE_INDICES, RIGHT_EYE_INDICES,
                           LIPS_INDICES} :
              \A k \in 1 .. Len(indices) : indices[k] \in 0 .. 467
        /\ Len(face.faceOval) = 36
        /\ Len(face.leftEye) = 6
        /\ Len(face.rightEye) = 6
        /\ Len(face.lips) = 11
        /\ ViewOf(face, face.faceOval, FACE_OVAL_INDICES)
        /\ ViewOf(face, face.leftEye, LEFT_EYE_INDICES)
        /\ ViewOf(face, face.rightEye, RIGHT_EYE_INDICES)
        /\ ViewOf(face, face.lips, LIPS_INDICES)

\* a frame was rendered with the geometry the generator returned, and the
\* loop waits for the next one
GeometryWasGenerated ==
    /\ hook.currentFace = "generated"
    /\ call.g = "generated"
    /\ call.target # None
    /\ hook.pending # {}

\* C17: processFrame with a target held and a geometry whose views are empty
\* (an empty faceOval) treats the geometry as no face: the output canvas is
\* the copied source frame and no overlay step runs.
EmptyViewsPassThrough ==
    [][\A frame \in Frames, r \in Readbacks :
          ( /\ ProcessFrameCall(frame, "emptyOval", r)
            /\ targetFaceImage # None )
          => /\ output' = VideoPixels[frame]
             /\ canvas' = canvas
             /\ ~call'.overlay]_vars

\* at most one animation-frame callback of the hook is pending, and it is the
\* one animationFrameRef holds
AtMostOnePendingFrame ==
    /\ Cardinality(hook.pending) <= 1
    /\ \A p \in hook.pending : p.id = hook.animationFrameRef

\* C18: at most one render loop is active: at every moment at most one
\* animation-frame callback of the hook is pending, whatever startStream,
\* stopStream, selectFace, clearFace and toggleFaceSwap calls were made; and
\* once stopStream was called no frame is rendered until startStream is
\* called again.
SingleRenderLoop ==
    [][/\ AtMostOnePendingFrame'
       /\ hook.stopped => ~ \E p \in hook.pending : RenderFrame(p.id, "gradient")]_vars

\* C19: while the hook streams, frames of the original and of the swapped
\* canvas are sent to the detection backend, over the WebSocket of the feed
\* or by the REST upload: a stream that stays on leads to a frame of each
\* feed having been sent.
StreamingSendsFrames ==
    hook.isStreaming ~> (~hook.isStreaming \/ \A feed \in Feeds : hook.sent[feed] # None)

\* the bounding box in pixels of the output canvas (mpx)
Denormalise(box) ==
    [x |-> (box.x * Canvas.width) \div 10, y |-> (box.y * Canvas.height) \div 10,
     w |-> (box.width * Canvas.width) \div 10, h |-> (box.height * Canvas.height) \div 10]

\* C20: the face rectangle of processFrame is the bounding box denormalised
\* to output pixels and expanded symmetrically by 15%: it has the centre of
\* the denormalised box, its left and right edges lie 15% of the box width
\* outside those of the box, its top and bottom edges 15% of the box height.
FaceRectIsPaddedBox ==
    calc.done =>
    LET d == Denormalise(calc.box)
        r == calc.rect
    IN  /\ 2 * r.x + r.w = 2 * d.x + d.w
        /\ 2 * r.y + r.h = 2 * d.y + d.h
        /\ 100 * (d.x - r.x) = 15 * d.w
        /\ 100 * ((r.x + r.w) - (d.x + d.w)) = 15 * d.w
        /\ 100 * (d.y - r.y) = 15 * d.h
        /\ 100 * ((r.y + r.h) - (d.y + d.h)) = 15 * d.h

\* the rectangle was computed for the bounding box of the generator
FaceRectWitness ==
    /\ calc.done
    /\ calc.box = BoundingBox
    /\ calc.rect.w > 0 /\ calc.rect.h > 0

\* the rectangle 10% larger than the face rectangle: 5% overhang per side
Enlarged(rect) ==
    [x |-> rect.x - (rect.w * 5) \div 100, y |-> rect.y - (rect.h * 5) \div 100,
     w |-> (rect.w * 110) \div 100, h |-> (rect.h * 110) \div 100]

\* C21: the rectangle the target is drawn into has the aspect ratio of the
\* target image, lies inside the rectangle 10% larger than the face
\* rectangle, has its width or its height, and has the centre of the face
\* rectangle in both dimensions.
DrawRectIsContainFit ==
    calc.done =>
    LET d == calc.draw
        big == Enlarged(calc.rect)
    IN  /\ d.w * calc.img.height = d.h * calc.img.width
        /\ big.x <= d.x /\ d.x + d.w <= big.x + big.w
        /\ big.y <= d.y /\ d.y + d.h <= big.y + big.h
        /\ d.w = big.w \/ d.h = big.h
        /\ 2 * d.x + d.w = 2 * calc.rect.x + calc.rect.w
        /\ 2 * d.y + d.h = 2 * calc.rect.y + calc.rect.h

\* a wide image was fitted into a tall face rectangle: full width, reduced
\* height
DrawRectWitness ==
    /\ calc.done
    /\ calc.img.width > calc.img.height
    /\ calc.rect.h > calc.rect.w
    /\ calc.draw.w = Enlarged(calc.rect).w
    /\ calc.draw.h < Enlarged(calc.rect).h

\* 50 * 50 times the mean of channel c of a surface over the sample block at
\* the centre of the frame (the part of the block off the canvas reads as 0)
BlockTotal(surface, c) ==
    LET InBlock(i) ==
            /\ 2 * PixelX(i) >= Canvas.width - 50 /\ 2 * PixelX(i) < Canvas.width + 50
            /\ 2 * PixelY(i) >= Canvas.height - 50 /\ 2 * PixelY(i) < Canvas.height + 50
    IN  SumSeq([i \in PixelIndex |-> IF InBlock(i) THEN surface[i][c] ELSE 0])

\* source mean over scratch mean of channel c in 1/1000, a zero scratch mean
\* replaced by 1, clamped to [0.5, 1.5]
ClampedMeanRatio(video, scratch, c) ==
    LET src == BlockTotal(video, c)
        tgt == BlockTotal(scratch, c)
        ratio == IF tgt = 0 THEN (1000 * src) \div (50 * 50) ELSE (1000 * src) \div tgt
    IN  IF ratio < 500 THEN 500 ELSE IF ratio > 1500 THEN 1500 ELSE ratio

\* C22: colour correction multiplies R, G and B of every scratch pixel with
\* alpha > 0 by the clamped ratio of its channel and caps the result at 255;
\* it changes no pixel with alpha 0 and no alpha (the alpha of the call's
\* scratch canvas is what feathering alone makes of the drawn target), and
\* it is applied once.
ColorCorrectionScalesChannels ==
    [][\A frame \in Frames, g \in Geometries \ {None} :
          ( /\ targetFaceImage # None
            /\ options.colorCorrection = TRUE
            /\ ProcessFrameCall(frame, g, "ok") )
          => LET drawn == DrawTarget(Blank, Images[targetFaceImage], FaceOf(g).boundingBox,
                                     options.blendAmount)
                 plain == ApplyFeathering(drawn, FaceOf(g), options.featherAmount, "ok").canvas
                 Scaled(v, c) ==
                     Min(255, RoundDiv(v * ClampedMeanRatio(VideoPixels[frame], drawn, c), 1000))
             IN  \A i \in PixelIndex :
                    /\ canvas'[i][4] = plain[i][4]
                    /\ drawn[i][4] = 0 => canvas'[i] = drawn[i]
                    /\ drawn[i][4] > 0 =>
                          \A c \in 1 .. 3 : canvas'[i][c] = Scaled(drawn[i][c], c)]_vars

\* a corrected frame in which one channel was scaled by the upper clamp, one
\* by a ratio inside the range and one by the lower clamp
ColorCorrectionWitness ==
    /\ call.frame = "dim" /\ call.target = "sarah" /\ call.readback = "ok"
    /\ call.overlay /\ ~call.threw
    /\ options.colorCorrection = TRUE /\ options.featherAmount = 0
    /\ \E i \in PixelIndex :
          /\ canvas[i][4] > 0
          /\ canvas[i][1] = 60 /\ canvas[i][2] = 108 /\ canvas[i][3] = 125

\* the distance of pixel i from the point c, in mpx
DistanceFrom(c, i) ==
    Sqrt((PixelX(i) * 1000 - c.x) * (PixelX(i) * 1000 - c.x)
         + (PixelY(i) * 1000 - c.y) * (PixelY(i) * 1000 - c.y))

\* C23: with featherAmount > 0, feathering changes no colour channel and
\* raises no alpha; a pixel at most maxDist - featherAmount from the centroid
\* of the face outline keeps its alpha, a pixel at maxDist or beyond gets
\* alpha 0, a pixel in between gets its alpha times
\* (maxDist - dist) / featherAmount (to within one step of rounding); every
\* alpha stays in 0..255 and an alpha of 0 stays 0.
FeatheringScalesAlphaDown ==
    calc.done =>
    LET before == FeatherInput(calc)
        oval == ScaledFace(calc.scale).faceOval
        c == OvalCenter(oval)
        maxDist == OvalMaxDist(oval, c)
        width == calc.feather * 1000
    IN  \A i \in PixelIndex :
            LET a == before[i][4]
                b == calc.out[i][4]
                dist == DistanceFrom(c, i)
            IN  /\ \A ch \in 1 .. 3 : calc.out[i][ch] = before[i][ch]
                /\ b \in 0 .. 255 /\ b <= a
                /\ a = 0 => b = 0
                /\ dist <= maxDist - width => b = a
                /\ dist >= maxDist => b = 0
                /\ (dist > maxDist - width /\ dist < maxDist) =>
                      Abs(b * width - a * (maxDist - dist)) <= width

\* one feathering left a pixel with its alpha, scaled one down and made one
\* transparent
FeatheringWitness ==
    /\ calc.done
    /\ LET before == FeatherInput(calc)
       IN  /\ \E i \in PixelIndex : before[i][4] > 0 /\ calc.out[i][4] = before[i][4]
           /\ \E i \in PixelIndex : 0 < calc.out[i][4] /\ calc.out[i][4] < before[i][4]
           /\ \E i \in PixelIndex : before[i][4] > 0 /\ calc.out[i][4] = 0

\* the smallest and the largest of the values of a sequence of numbers
Extent(values) ==
    [min |-> 0 - MaxSeq([k \in DOMAIN values |-> 10000 - values[k]]) + 10000,
     max |-> MaxSeq(values)]

\* C24 as stated: the bounding box the generator returns is the box centred
\* at (0.5, 0.45) with half-width 0.35 and half-height 0.45.
BoundingBoxHasHalfExtents ==
    hook.currentFace # None =>
    LET box == GenerateFaceDetection.boundingBox
    IN  /\ box.x = 5000 - 3500 /\ box.width = 2 * 3500
        /\ box.y = 4500 - 4500 /\ box.height = 2 * 4500

\* C24, amended: the bounding box the generator returns is the box centred
\* at (0.5, 0.45) of width 0.35 and height 0.45 (half-width 0.175,
\* half-height 0.225); it is built from these constants and is not the
\* extent of the face outline, which it contains with a margin.
BoundingBoxFromConstants ==
    hook.currentFace # None =>
    LET face == GenerateFaceDetection
        box == face.boundingBox
        xs == Extent([k \in DOMAIN face.faceOval |-> face.faceOval[k].x])
        ys == Extent([k \in DOMAIN face.faceOval |-> face.faceOval[k].y])
    IN  /\ box.width = 3500 /\ box.height = 4500
        /\ 2 * box.x + box.width = 2 * 5000
        /\ 2 * box.y + box.height = 2 * 4500
        /\ box.x < xs.min /\ xs.max < box.x + box.width
        /\ box.y < ys.min /\ ys.max < box.y + box.height

\* a frame was rendered with the generated geometry over the wide target
BoundingBoxWitness ==
    /\ hook.currentFace = "generated"
    /\ call.g = "generated" /\ call.target = "sarah"
    /\ call.overlay /\ ~call.threw

\* the set of the indices of an index array
IndexSet(indices) == {indices[k] : k \in DOMAIN indices}

\* C25: in the geometry the generator returns each view holds the points
\* written for its own index set: faceOval[i] is the i-th ellipse sample, and
\* leftEye, rightEye, lips and noseTip hold the points computed for them; no
\* group of assignments overwrites a landmark of another group: the index
\* sets are pairwise disjoint, none contains the nose-tip index, and none
\* names an index twice.
ViewsHoldTheirOwnPoints ==
    hook.currentFace # None =>
    LET face == GenerateFaceDetection
        groups == <<FACE_OVAL_INDICES, LEFT_EYE_INDICES, RIGHT_EYE_INDICES, LIPS_INDICES,
                    <<NOSE_TIP_INDEX>> >>
    IN  /\ \A i \in 0 .. 35 : face.faceOval[i + 1] = OvalPoint(i)
        /\ \A i \in 0 .. 5 : face.leftEye[i + 1] = Formula("leftEye", i)
        /\ \A i \in 0 .. 5 : face.rightEye[i + 1] = Formula("rightEye", i)
        /\ \A i \in 0 .. 10 : face.lips[i + 1] = Formula("lips", i)
        /\ face.noseTip = Formula("noseTip", 0)
        /\ \A m, n \in DOMAIN groups :
              m # n => IndexSet(groups[m]) \cap IndexSet(groups[n]) = {}
        /\ \A m \in DOMAIN groups : Cardinality(IndexSet(groups[m])) = Len(groups[m])

\* a frame was rendered over the square target with the generated geometry
\* while the stream was on
ViewsWitness ==
    /\ hook.isStreaming
    /\ hook.currentFace = "generated"
    /\ call.g = "generated" /\ call.target = "alex"
    /\ call.overlay

\* clearFace() has been called and selectFace has not been called since
ClearFaceWasLast ==
    /\ loads # <<>>
    /\ \A k \in DOMAIN loads : loads[k].cleared # "no"

\* C26: once clearFace() has been called and selectFace is not called again,
\* selectedFace is null, isFaceSwapEnabled is false and the engine has no
\* target, also while and after a selectFace call made before the clear
\* settles.
ClearFaceWinsOverPendingSelect ==
    ClearFaceWasLast =>
        /\ hook.selectedFace = None
        /\ ~hook.isFaceSwapEnabled
        /\ targetFaceImage = None

\* stopStream() has been called, startStream has not been called since, and
\* every startStream call has settled
StoppedAndSettled == hook.stopped /\ hook.starting = 0

\* C27: once stopStream() has been called and startStream is not called
\* again, then after every pending startStream has settled isStreaming is
\* false, the camera stream is released and neither WebSocket ref holds a
\* socket.
StopStreamWinsOverPendingStart ==
    StoppedAndSettled =>
        /\ ~hook.isStreaming
        /\ ~hook.hasStream
        /\ \A feed \in Feeds : hook.ws[feed] = None

\* the last n entries of a sequence
LastOf(arr, n) == SubSeq(arr, Len(arr) - n + 1, Len(arr))

\* C28: after any sequence of detection_result messages, results holds at
\* most 50 entries, they are the most recent results in arrival order, and
\* lastResult is the last entry of results when results is not empty.
ResultsAreTheLastFifty ==
    calc.arrived # <<>> =>
        /\ Len(calc.results) = Min(50, Len(calc.arrived))
        /\ calc.results = LastOf(calc.arrived, Len(calc.results))
        /\ calc.lastResult = calc.results[Len(calc.results)]

\* more than 50 results have arrived and the oldest ones were dropped
ResultsWitness ==
    /\ Len(calc.arrived) > 50
    /\ Len(calc.results) = 50
    /\ calc.results[1].timestamp = Len(calc.arrived) - 49
    /\ calc.lastResult.timestamp = Len(calc.arrived)

\* C29: after reset(), and until detect is next called, result and error
\* are null and isLoading is false, also when a detect call was in flight at
\* the time of the reset; and whenever no detect call is in flight,
\* isLoading is false and at most one of result and error is non-null.
ResetWinsOverPendingDetect ==
    /\ calc.resetLast =>
          /\ calc.result = NoResponse
          /\ calc.error = None
          /\ ~calc.isLoading
    /\ (\A k \in DOMAIN calc.detects : ~InFlight(k)) =>
          /\ ~calc.isLoading
          /\ calc.result = NoResponse \/ calc.error = None

\* the coordinates of a point of a geometry of generateFaceDetection
Coordinates(point) == IF "kind" \in DOMAIN point THEN PointOf(point) ELSE point

\* the coordinates of the points of a sequence
CoordinatesOfEach(points) == [k \in DOMAIN points |-> Coordinates(points[k])]

\* C30: generateSimpleFaceDetection of useMediaPipe and generateFaceDetection
\* of useFaceSwap return equal landmarks, bounding box, faceOval, leftEye,
\* rightEye, lips and noseTip.
GeneratorsAreEquivalent ==
    hook.currentFace # None =>
    LET face == GenerateFaceDetection
        simple == GenerateSimpleFaceDetection
    IN  /\ CoordinatesOfEach(face.landmarks) = simple.landmarks
        /\ face.boundingBox = simple.boundingBox
        /\ CoordinatesOfEach(face.faceOval) = simple.faceOval
        /\ CoordinatesOfEach(face.leftEye) = simple.leftEye
        /\ CoordinatesOfEach(face.rightEye) = simple.rightEye
        /\ CoordinatesOfEach(face.lips) = simple.lips
        /\ Coordinates(face.noseTip) = simple.noseTip

\* the hook has generated a geometry, and the second generator returns one
\* with all 468 landmarks and the six points of each eye
GeneratorsWitness ==
    /\ hook.currentFace # None
    /\ Len(GenerateSimpleFaceDetection.landmarks) = 468
    /\ Len(GenerateSimpleFaceDetection.leftEye) = 6
    /\ GenerateSimpleFaceDetection.noseTip = [x |-> 5000, y |-> 5000]
    /\ GenerateSimpleFaceDetection.faceOval[1] = [x |-> 6400, y |-> 4500]

====
